---------------------------- MODULE Spec2Model ----------------------------
(***************************************************************************)
(* A model of src/mcp_py/cli.py: the upward manifest search, the name      *)
(* transform, and the three commands build, create and add.                *)
(*                                                                         *)
(* A Python str is a sequence of one-character strings.  A path is the     *)
(* sequence of its components below the filesystem root, so the root is    *)
(* <<>> and Path.parent drops the last component.  The filesystem is a     *)
(* function from the paths that exist to what is stored there.             *)
(***************************************************************************)
EXTENDS Integers, Sequences, FiniteSets, TLC

VARIABLES
    cwd,        \* the process's working directory (Path.cwd())
    environ,    \* the value of MCP_SKIP_VALIDATION in os.environ
    osName,     \* os.name
    fs,         \* the filesystem: path -> entry
    fs0,        \* history: the filesystem when the command started
    fsTsc,      \* history: the filesystem as the compiler left it
    args,       \* the arguments the command was called with
    stdin,      \* what the user types when input() asks
    pc,         \* the position of the command in its code
    locals,     \* the command's local variables
    log,        \* history: the steps taken and the processes started
    outcome     \* "running", "ok", or the error the command raised

vars == <<cwd, environ, osName, fs, fs0, fsTsc, args, stdin, pc, locals, log, outcome>>

---------------------------------------------------------------------------
(* Bounds *)

\* Depth of the directory tree below the filesystem root.
MaxDepth == 2
\* Number of directories that hold a package.json in the search model.
MaxManifests == 2
\* Length of the strings given to to_pascal_case.
MaxLen == 4
\* Length of the body that follows the prefix of a compiled entry point.
MaxBody == 2
\* Number of times the post-compile patch is applied to one file.
MaxPatchRuns == 2

---------------------------------------------------------------------------
(* Characters and strings *)

LowerLetters == <<"a","b","c","d","e","f","g","h","i","j","k","l","m",
                  "n","o","p","q","r","s","t","u","v","w","x","y","z">>
UpperLetters == <<"A","B","C","D","E","F","G","H","I","J","K","L","M",
                  "N","O","P","Q","R","S","T","U","V","W","X","Y","Z">>

\* str.upper() of one character
Upper(c) ==
    IF \E i \in DOMAIN LowerLetters : LowerLetters[i] = c
    THEN UpperLetters[CHOOSE i \in DOMAIN LowerLetters : LowerLetters[i] = c]
    ELSE c

\* str.lower() of one character
Lower(c) ==
    IF \E i \in DOMAIN UpperLetters : UpperLetters[i] = c
    THEN LowerLetters[CHOOSE i \in DOMAIN UpperLetters : UpperLetters[i] = c]
    ELSE c

StringsUpTo(A, n) == UNION {[1..k -> A] : k \in 0..n}

\* Python's None, for an optional str and for an optional Path
None == <<"None">>
NoPath == << <<"None">> >>

\* bool(value) of an optional str: None and "" are falsy
Truthy(s) == s /= None /\ s /= <<>>

StartsWith(s, prefix) ==
    /\ Len(prefix) <= Len(s)
    /\ SubSeq(s, 1, Len(prefix)) = prefix

\* str.replace(old, new) for one-character old and new
Replace(s, old, new) == [i \in 1..Len(s) |-> IF s[i] = old THEN new ELSE s[i]]

\* str.split(sep) for a one-character sep: empty segments are kept
RECURSIVE Split(_, _)
Split(s, sep) ==
    IF \A i \in DOMAIN s : s[i] /= sep
    THEN <<s>>
    ELSE LET i == CHOOSE k \in DOMAIN s :
                     s[k] = sep /\ \A j \in 1..(k - 1) : s[j] /= sep
         IN  <<SubSeq(s, 1, i - 1)>> \o Split(SubSeq(s, i + 1, Len(s)), sep)

\* ''.join(list)
RECURSIVE Join(_)
Join(list) == IF list = <<>> THEN <<>> ELSE Head(list) \o Join(Tail(list))

\* A mutant of Capitalize: the first character is left as it is.
CapitalizeKeepsFirst(w) == [i \in 1..Len(w) |-> Lower(w[i])]

\* str.capitalize(): first character upper-cased, all the others lower-cased
Capitalize(w) ==
    IF w = <<>> THEN <<>>
    ELSE <<Upper(w[1])>> \o [i \in 1..(Len(w) - 1) |-> Lower(w[i + 1])]

to_pascal_case(value) ==
    LET words == Split(Replace(value, "_", "-"), "-")
    IN  Join([i \in DOMAIN words |-> Capitalize(words[i])])

\* str.strip() over the whitespace of the model, the space
RECURSIVE Strip(_)
Strip(s) ==
    IF s = <<>> THEN s
    ELSE IF Head(s) = " " THEN Strip(Tail(s))
    ELSE IF s[Len(s)] = " " THEN Strip(SubSeq(s, 1, Len(s) - 1))
    ELSE s

---------------------------------------------------------------------------
(* Paths and the filesystem *)

PackageJson == <<"p","a","c","k","a","g","e",".","j","s","o","n">>
DirNames == {<<"a">>, <<"b">>}

\* The directories of the tree: every path of at most MaxDepth components.
Dirs == UNION {[1..k -> DirNames] : k \in 0..MaxDepth}

\* Path.parent: the filesystem root is its own parent
Parent(p) == IF p = <<>> THEN p ELSE SubSeq(p, 1, Len(p) - 1)

\* path / name
Child(p, name) == Append(p, name)

\* Path.exists()
Exists(files, p) == p \in DOMAIN files

DirEntry == [t |-> "dir"]
TextFile(data) == [t |-> "text", data |-> data]

\* A mutant of find_package_json: the start directory itself is not examined.
RECURSIVE find_package_json_skips_start(_, _)
find_package_json_skips_start(files, current) ==
    IF Parent(current) = current THEN NoPath
    ELSE LET candidate == Child(Parent(current), PackageJson)
         IN  IF Exists(files, candidate) THEN candidate
             ELSE find_package_json_skips_start(files, Parent(current))

RECURSIVE find_package_json(_, _)
find_package_json(files, current) ==
    LET candidate == Child(current, PackageJson)
    IN  IF Exists(files, candidate) THEN candidate
        ELSE IF Parent(current) = current THEN NoPath
        ELSE find_package_json(files, Parent(current))


FrameworkKey == "mcp-framework"

\* What json.loads gives for the text of a package.json.  top is "invalid"
\* for text that is not JSON, "array" for JSON that is not an object;
\* depsType says what the "dependencies" key of an object holds ("absent"
\* when there is no such key) and deps are its keys when it is an object.
ManifestFile(top, depsType, deps) ==
    [t |-> "json", top |-> top, depsType |-> depsType, deps |-> deps]

\* The package.json that create_project writes (lines 71-86).
GeneratedManifest == ManifestFile("object", "object", {FrameworkKey})

\* A tree in which every directory of Dirs exists and the directories of M
\* hold a package.json, entry[d] for directory d.
LayoutFs(M, entry) ==
    [p \in Dirs \cup {Child(d, PackageJson) : d \in M} |->
        IF p \in Dirs THEN DirEntry ELSE entry[Parent(p)]]

ManifestSets == {M \in SUBSET Dirs : Cardinality(M) <= MaxManifests}

---------------------------------------------------------------------------
(* find_package_json, called on its own *)

InitResolve ==
    /\ cwd \in Dirs
    /\ \E M \in ManifestSets : fs = LayoutFs(M, [d \in M |-> GeneratedManifest])
    /\ fs0 = fs
    /\ fsTsc = fs
    /\ environ = None
    /\ osName = "posix"
    /\ args = [start |-> cwd]
    /\ stdin = <<>>
    /\ pc = "find_package_json"
    /\ locals = [result |-> NoPath]
    /\ log = <<>>
    /\ outcome = "running"

Resolve ==
    /\ pc = "find_package_json"
    /\ locals' = [result |-> find_package_json(fs, args.start)]
    /\ pc' = "returned"
    /\ outcome' = "ok"
    /\ UNCHANGED <<cwd, environ, osName, fs, fs0, fsTsc, args, stdin, log>>

NextResolve == Resolve

SpecResolve == InitResolve /\ [][NextResolve]_vars

IsAncestorOrSelf(d, start) ==
    /\ Len(d) <= Len(start)
    /\ SubSeq(start, 1, Len(d)) = d

HoldsManifest(files, d) == Child(d, PackageJson) \in DOMAIN files

\* The directories start, parent(start), ..., root.
Chain(start) == {d \in Dirs : IsAncestorOrSelf(d, start)}

\* C4: find_package_json returns the manifest of the nearest directory on the
\* chain start, parent(start), ..., root that holds one, returns None exactly
\* when no directory on the chain holds one, never returns a manifest of a
\* directory off the chain, and leaves the filesystem as it found it.
C4_NearestAncestorWins ==
    pc = "returned" =>
        LET r == locals.result
            chain == Chain(args.start)
        IN  /\ (r = NoPath) <=> (\A d \in chain : ~HoldsManifest(fs0, d))
            /\ r /= NoPath =>
                 \E d \in chain :
                    /\ r = Child(d, PackageJson)
                    /\ HoldsManifest(fs0, d)
                    /\ \A e \in chain : Len(e) > Len(d) => ~HoldsManifest(fs0, e)
            /\ fs = fs0

\* C4 witness: the search started two levels down in a directory without a
\* manifest, its parent and the root both hold one, and the parent's is returned.
C4_Witness ==
    /\ pc = "returned"
    /\ Len(args.start) = 2
    /\ ~HoldsManifest(fs, args.start)
    /\ HoldsManifest(fs, Parent(args.start))
    /\ HoldsManifest(fs, <<>>)
    /\ locals.result = Child(Parent(args.start), PackageJson)

---------------------------------------------------------------------------
(* to_pascal_case, called on its own *)

PascalAlphabet == {"a", "B", "7", "-", "_"}

InitPascal ==
    /\ cwd = <<>>
    /\ fs = LayoutFs({}, <<>>)
    /\ fs0 = fs
    /\ fsTsc = fs
    /\ environ = None
    /\ osName = "posix"
    /\ args \in [value : StringsUpTo(PascalAlphabet, MaxLen)]
    /\ stdin = <<>>
    /\ pc = "to_pascal_case"
    /\ locals = [result |-> <<>>]
    /\ log = <<>>
    /\ outcome = "running"

Pascal ==
    /\ pc = "to_pascal_case"
    /\ locals' = [result |-> to_pascal_case(args.value)]
    /\ pc' = "returned"
    /\ outcome' = "ok"
    /\ UNCHANGED <<cwd, environ, osName, fs, fs0, fsTsc, args, stdin, log>>

NextPascal == Pascal

SpecPascal == InitPascal /\ [][NextPascal]_vars

IsDelimiter(c) == c \in {"-", "_"}

\* The position in s of its k-th character that is not a delimiter.
LetterPos(s, k) ==
    CHOOSE i \in DOMAIN s :
        /\ ~IsDelimiter(s[i])
        /\ Cardinality({j \in 1..i : ~IsDelimiter(s[j])}) = k

NumLetters(s) == Cardinality({j \in DOMAIN s : ~IsDelimiter(s[j])})

\* Position i of s starts a segment: a non-delimiter at the start of s or
\* right after a delimiter.
StartsSegment(s, i) == ~IsDelimiter(s[i]) /\ (i = 1 \/ IsDelimiter(s[i - 1]))

\* C6: the output of to_pascal_case holds no hyphen and no underscore; the
\* non-empty segments contribute their characters in order and nothing else
\* is added (empty segments contribute nothing); and the first character of
\* every non-empty segment appears upper-cased.
C6_PascalSegments ==
    pc = "returned" =>
        LET in == args.value
            out == locals.result
        IN  /\ \A k \in DOMAIN out : ~IsDelimiter(out[k])
            /\ Len(out) = NumLetters(in)
            /\ \A k \in 1..NumLetters(in) :
                 LET i == LetterPos(in, k)
                 IN  /\ k <= Len(out)
                     /\ Lower(out[k]) = Lower(in[i])
                     /\ StartsSegment(in, i) => out[k] = Upper(in[i])

\* C6 witness: "a--B" (consecutive delimiters) has become "AB".
C6_Witness ==
    /\ pc = "returned"
    /\ args.value = <<"a", "-", "-", "B">>
    /\ locals.result = <<"A", "B">>

\* C8 as claimed: every character that does not start a segment is left
\* exactly as in the input, and every segment start is upper-cased.
C8_OnlyFirstLetterChanges ==
    pc = "returned" =>
        LET in == args.value
            out == locals.result
        IN  /\ Len(out) = NumLetters(in)
            /\ \A k \in 1..NumLetters(in) :
                 LET i == LetterPos(in, k)
                 IN  out[k] = IF StartsSegment(in, i) THEN Upper(in[i]) ELSE in[i]

---------------------------------------------------------------------------
(* Text files: Path.read_text() and Path.write_text() *)

\* Universal newlines on reading: "\r\n" and a lone "\r" both become "\n".
RECURSIVE TranslateNewlines(_)
TranslateNewlines(s) ==
    IF s = <<>> THEN <<>>
    ELSE IF s[1] = "\r"
         THEN IF Len(s) >= 2 /\ s[2] = "\n"
              THEN <<"\n">> \o TranslateNewlines(SubSeq(s, 3, Len(s)))
              ELSE <<"\n">> \o TranslateNewlines(Tail(s))
         ELSE <<s[1]>> \o TranslateNewlines(Tail(s))

\* On writing, "\n" becomes os.linesep: "\r\n" on nt, "\n" elsewhere.
RECURSIVE EncodeNewlines(_, _)
EncodeNewlines(os, s) ==
    IF s = <<>> THEN <<>>
    ELSE IF s[1] = "\n" /\ os = "nt"
         THEN <<"\r", "\n">> \o EncodeNewlines(os, Tail(s))
         ELSE <<s[1]>> \o EncodeNewlines(os, Tail(s))

read_text(files, p) == TranslateNewlines(files[p].data)

write_text(files, p, data, os) ==
    [q \in DOMAIN files \cup {p} |->
        IF q = p THEN TextFile(EncodeNewlines(os, data)) ELSE files[q]]

\* Path.write_text() of a file whose content the model keeps as a value
write_entry(files, p, entry) ==
    [q \in DOMAIN files \cup {p} |-> IF q = p THEN entry ELSE files[q]]

\* Path.mkdir(parents=True, exist_ok=True): p and its missing ancestors
mkdir_parents(files, p) ==
    LET made == {SubSeq(p, 1, k) : k \in 0..Len(p)} \ DOMAIN files
    IN  [q \in DOMAIN files \cup made |-> IF q \in made THEN DirEntry ELSE files[q]]

---------------------------------------------------------------------------
(* build_framework *)

Dist == <<"d","i","s","t">>
IndexJs == <<"i","n","d","e","x",".","j","s">>
ShebangText == <<"#","!","/","u","s","r","/","b","i","n","/","e","n","v"," ","n","o","d","e">>
Shebang == ShebangText \o <<"\n">>
TrueStr == <<"t","r","u","e">>

IndexPath(project_root) == Child(Child(project_root, Dist), IndexJs)

\* An entry of the history log.
Ev(op, what, status, env) == [op |-> op, what |-> what, status |-> status, env |-> env]
Step(what) == Ev("step", what, 0, None)
\* A process that was started: its command line, exit status and the
\* MCP_SKIP_VALIDATION of its environment.
Exec(what, status, env) == Ev("exec", what, status, env)

\* A mutant of CheckCall: the exit status is not looked at (subprocess.call).
CheckCallIgnoresStatus(status) == TRUE

\* subprocess.check_call returns only for exit status zero and raises otherwise
CheckCall(status) == status = 0

\* A mutant of GateResult: every manifest is accepted.
GateAcceptsAll(m) == "pass"

\* Lines 34-36 on the parsed manifest m: "pass", or the exception raised.
GateResult(m) ==
    IF m.top = "invalid" THEN "JSONDecodeError"
    ELSE IF m.top /= "object" THEN "AttributeError"
    ELSE IF m.depsType = "null" THEN "TypeError"
    ELSE IF FrameworkKey \notin (IF m.depsType = "absent" THEN {} ELSE m.deps)
         THEN "InvalidProject"
    ELSE "pass"

\* A mutant of PostCompilePatch: a missing entry point is created.
PostCompilePatchCreates(files, project_root, os) ==
    LET index_path == IndexPath(project_root)
    IN  IF Exists(files, index_path)
        THEN LET content == read_text(files, index_path)
             IN  IF ~StartsWith(content, Shebang)
                 THEN write_text(files, index_path, Shebang \o content, os)
                 ELSE files
        ELSE write_text(mkdir_parents(files, Parent(index_path)), index_path, Shebang, os)

\* Lines 42-48: the post-compile patch.
PostCompilePatch(files, project_root, os) ==
    LET index_path == IndexPath(project_root)
    IN  IF Exists(files, index_path)
        THEN LET content == read_text(files, index_path)
             IN  IF ~StartsWith(content, Shebang)
                 THEN write_text(files, index_path, Shebang \o content, os)
                 ELSE files
        ELSE files

\* The manifests a project root may hold.
ManifestKinds ==
    {ManifestFile("invalid", "absent", {}),
     ManifestFile("array", "absent", {}),
     ManifestFile("object", "absent", {}),
     ManifestFile("object", "null", {}),
     ManifestFile("object", "object", {"zod"}),
     ManifestFile("object", "object", {FrameworkKey})}

\* What dist/index.js may hold before the build and after the compiler ran.
BuildContents == {<<"x">>, Shebang \o <<"x">>}

EnvValues == {None, TrueStr, <<"1">>}

\* Layouts with at most one package.json, and with or without a compiled
\* entry point beside it.
BuildLayouts ==
    {LayoutFs({}, <<>>)}
    \cup {LayoutFs({d}, [e \in {d} |-> m]) : d \in Dirs, m \in ManifestKinds}
    \cup {write_text(mkdir_parents(LayoutFs({d}, [e \in {d} |-> m]), Child(d, Dist)),
                     IndexPath(d), c, "posix") :
            d \in Dirs, m \in ManifestKinds, c \in BuildContents}

InitBuild ==
    /\ cwd \in Dirs
    /\ fs \in BuildLayouts
    /\ fs0 = fs
    /\ fsTsc = fs
    /\ environ \in EnvValues
    /\ osName \in {"posix", "nt"}
    /\ args = <<>>
    /\ stdin = <<>>
    /\ pc = "find_root"
    /\ locals = [pkg_path |-> NoPath, project_root |-> NoPath]
    /\ log = <<>>
    /\ outcome = "running"

Fail(error) ==
    /\ pc' = "failed"
    /\ outcome' = error

\* Lines 20-27: resolve the project root from the current directory.
BuildFindRoot ==
    /\ pc = "find_root"
    /\ LET pkg_path == find_package_json(fs, cwd)
       IN  /\ locals' = [pkg_path |-> pkg_path,
                          project_root |-> IF pkg_path = NoPath THEN NoPath
                                           ELSE Parent(pkg_path)]
           /\ IF pkg_path = NoPath
              THEN Fail("NotFound")
              ELSE pc' = "gate" /\ outcome' = outcome
    /\ log' = Append(log, Step("find_root"))
    /\ UNCHANGED <<cwd, environ, osName, fs, fs0, fsTsc, args, stdin>>

\* Lines 29-36: the validation gate.
BuildGate ==
    /\ pc = "gate"
    /\ LET skip_validation == environ = TrueStr
       IN  IF skip_validation
           THEN /\ pc' = "compile"
                /\ outcome' = outcome
                /\ log' = Append(log, Step("gate"))
           ELSE /\ log' = log \o <<Step("gate"), Ev("read", "package.json", 0, None)>>
                /\ LET verdict == GateResult(fs[locals.pkg_path])
                   IN  IF verdict = "pass"
                       THEN pc' = "compile" /\ outcome' = outcome
                       ELSE Fail(verdict)
    /\ UNCHANGED <<cwd, environ, osName, fs, fs0, fsTsc, args, stdin, locals>>

\* What the compiler, an external process, may do to the compiled entry
\* point of the directory it runs in: leave it, or (re)write it.
CompilerEffects(files, dir) ==
    {files}
    \cup {write_text(mkdir_parents(files, Child(dir, Dist)), IndexPath(dir), c, "posix") :
            c \in BuildContents}

\* Lines 38-40: run the compiler in the project root and check its exit status.
BuildCompile ==
    /\ pc = "compile"
    /\ \E status \in {0, 2}, after \in CompilerEffects(fs, locals.project_root) :
        /\ fs' = after
        /\ fsTsc' = after
        /\ log' = log \o <<Step("compile"),
                           Exec(IF osName /= "nt" THEN "npx tsc" ELSE "npx.cmd tsc", status, environ)>>
        /\ IF CheckCall(status)
           THEN pc' = "patch" /\ outcome' = outcome
           ELSE Fail("ExternalToolFailure")
    /\ UNCHANGED <<cwd, environ, osName, fs0, args, stdin, locals>>

\* Lines 42-49: the post-compile patch, and the end of the run.
BuildPatch ==
    /\ pc = "patch"
    /\ fs' = PostCompilePatch(fs, locals.project_root, osName)
    /\ log' = Append(log, Step("patch"))
    /\ pc' = "done"
    /\ outcome' = "ok"
    /\ UNCHANGED <<cwd, environ, osName, fs0, fsTsc, args, stdin, locals>>

NextBuild == BuildFindRoot \/ BuildGate \/ BuildCompile \/ BuildPatch

SpecBuild == InitBuild /\ [][NextBuild]_vars

Logged(op) == {i \in DOMAIN log : log[i].op = op}
StepsTaken == [i \in 1..Cardinality(Logged("step")) |->
                 log[CHOOSE j \in Logged("step") :
                        Cardinality({k \in Logged("step") : k <= j}) = i].what]
Took(what) == \E i \in Logged("step") : log[i].what = what
IsPrefixOf(s, t) == Len(s) <= Len(t) /\ SubSeq(t, 1, Len(s)) = s

\* The manifest declares the framework as a runtime dependency.
DeclaresFramework(m) ==
    m.top = "object" /\ m.depsType = "object" /\ FrameworkKey \in m.deps

\* The same entry, or the same absence of one, at path p in both filesystems.
SameAt(f, g, p) ==
    /\ (p \in DOMAIN f) <=> (p \in DOMAIN g)
    /\ p \in DOMAIN f => f[p] = g[p]

\* C1: without the override, a manifest at the resolved root that does not
\* declare the framework makes the run fail at the gate with no compiler
\* started; with the override the manifest is never read and the gate lets
\* every manifest through to the compile step.
C1_ValidationGate ==
    locals.pkg_path /= NoPath =>
        LET m == fs0[locals.pkg_path]
        IN  /\ (environ /= TrueStr /\ ~DeclaresFramework(m)) =>
                 /\ Logged("exec") = {}
                 /\ ~Took("compile")
                 /\ Took("gate") => pc = "failed" /\ outcome \notin {"running", "ok"}
            /\ environ = TrueStr =>
                 /\ Logged("read") = {}
                 /\ Took("gate") => pc \in {"compile", "patch", "done"} \/ Took("compile")

\* C1 witness: no override, the manifest has dependencies but not the
\* framework, and the run has failed at the gate as an invalid project.
C1_Witness ==
    /\ pc = "failed"
    /\ outcome = "InvalidProject"
    /\ environ /= TrueStr
    /\ fs0[locals.pkg_path].deps = {"zod"}
    /\ Logged("exec") = {}

\* C2 (amended): the steps are taken in the order find_root, gate, compile,
\* patch, none twice; the compiler is started at most once, and only with the
\* root found and the gate passed or disabled; the patch step runs only after
\* the compiler exited with status zero; a failed run leaves the filesystem
\* as it was at the start when the compiler never ran, and as the compiler
\* left it otherwise.
C2_LinearNoRetry ==
    /\ IsPrefixOf(StepsTaken, <<"find_root", "gate", "compile", "patch">>)
    /\ Cardinality(Logged("exec")) <= 1
    /\ Logged("exec") /= {} =>
         /\ locals.pkg_path /= NoPath
         /\ environ = TrueStr \/ DeclaresFramework(fs0[locals.pkg_path])
    /\ Took("patch") => \E i \in Logged("exec") : log[i].status = 0
    /\ ~Took("patch") => fs = fsTsc
    /\ Logged("exec") = {} => fsTsc = fs0
    /\ pc = "failed" =>
         /\ outcome \in {"NotFound", "InvalidProject", "JSONDecodeError",
                         "AttributeError", "TypeError", "ExternalToolFailure"}
         /\ fs = fsTsc

\* C2 witness: the compiler ran once, exited non-zero after writing the
\* entry point, and the run has failed without the patch step.
C2_Witness ==
    /\ pc = "failed"
    /\ outcome = "ExternalToolFailure"
    /\ Cardinality(Logged("exec")) = 1
    /\ ~Took("patch")
    /\ fs /= fs0

\* C2 as claimed: when the run ends in failure, dist/index.js under the
\* project root is what it was when the run started.
C2_FailureLeavesIndexUnchanged ==
    (pc = "failed" /\ locals.pkg_path /= NoPath) =>
        SameAt(fs, fs0, IndexPath(locals.project_root))

\* C9: when the compiler exited with status zero and left no dist/index.js,
\* the run ends in success and the filesystem is as the compiler left it.
C9_MissingEntryPointNoOp ==
    (pc = "done" /\ ~Exists(fsTsc, IndexPath(locals.project_root))) =>
        /\ outcome = "ok"
        /\ fs = fsTsc
        /\ DOMAIN fs = DOMAIN fsTsc

\* C9 witness: a run that ended after the compiler exited zero without
\* producing the entry point.
C9_Witness ==
    /\ pc = "done"
    /\ \E i \in Logged("exec") : log[i].status = 0
    /\ ~Exists(fsTsc, IndexPath(locals.project_root))
    /\ ~Exists(fs, Child(locals.project_root, Dist))

---------------------------------------------------------------------------
(* The post-compile patch, applied repeatedly to one compiled file *)

PatchPrefixes ==
    {<<>>, Shebang, ShebangText, ShebangText \o <<"\r", "\n">>, <<"#", "!">>}

PatchContents ==
    {pre \o body : pre \in PatchPrefixes,
                   body \in StringsUpTo({"x", "\r", "\n"}, MaxBody)}

\* The state after a successful compile in project root /, with any content
\* in dist/index.js.
InitPatch ==
    /\ cwd = <<>>
    /\ \E c \in PatchContents :
         fs = write_entry(mkdir_parents(LayoutFs({<<>>}, [d \in {<<>>} |-> GeneratedManifest]),
                                        Child(<<>>, Dist)),
                          IndexPath(<<>>), TextFile(c))
    /\ fs0 = fs
    /\ fsTsc = fs
    /\ environ = None
    /\ osName \in {"posix", "nt"}
    /\ args = <<>>
    /\ stdin = <<>>
    /\ pc = "patch"
    /\ locals = [pkg_path |-> Child(<<>>, PackageJson), project_root |-> <<>>]
    /\ log = <<>>
    /\ outcome = "running"

\* Lines 42-48 once more on the same file; log keeps the content after each run.
PatchStep ==
    /\ pc = "patch"
    /\ Len(log) < MaxPatchRuns
    /\ fs' = PostCompilePatch(fs, locals.project_root, osName)
    /\ log' = Append(log, fs'[IndexPath(locals.project_root)].data)
    /\ UNCHANGED <<cwd, environ, osName, fs0, fsTsc, args, stdin, pc, locals, outcome>>

NextPatch == PatchStep

SpecPatch == InitPatch /\ [][NextPatch]_vars

OriginalContent == fs0[IndexPath(locals.project_root)].data

\* Applying the patch again changes nothing: every run after the first
\* leaves the content the first run produced.
PatchIdempotent == \A i \in DOMAIN log : log[i] = log[1]

\* The marker is never prepended twice.
PatchNeverDoublesMarker == \A i \in DOMAIN log : ~StartsWith(log[i], Shebang \o Shebang)
                              \/ StartsWith(OriginalContent, Shebang \o Shebang)

\* C3 as claimed, on a POSIX host: the content after any number of runs is
\* the content after the first; a file that begins with the marker keeps its
\* content; a file that does not begin with it ends up as marker + original
\* content.
C3_PatchIdempotentPrepend ==
    (osName = "posix" /\ log /= <<>>) =>
        /\ \A i \in DOMAIN log : log[i] = log[1]
        /\ StartsWith(OriginalContent, Shebang) => log[1] = OriginalContent
        /\ ~StartsWith(OriginalContent, Shebang) => log[1] = Shebang \o OriginalContent

---------------------------------------------------------------------------
(* create_project *)

Src == <<"s","r","c">>
Tools == <<"t","o","o","l","s">>
Prompts == <<"p","r","o","m","p","t","s">>
Resources == <<"r","e","s","o","u","r","c","e","s">>
TsconfigJson == <<"t","s","c","o","n","f","i","g",".","j","s","o","n">>
ReadmeMd == <<"R","E","A","D","M","E",".","m","d">>
IndexTs == <<"i","n","d","e","x",".","t","s">>
ExampleToolTs == <<"E","x","a","m","p","l","e","T","o","o","l",".","t","s">>
DotGit == <<".","g","i","t">>
DefaultPort == 8080

\* A rendered template: which one, and the parameters it was rendered with.
Template(what, params) == [t |-> "template", what |-> what, params |-> params]

\* Lines 104-111: the entry-point source; cors matters only with http.
IndexTsContent(http, cors, port) ==
    IF http THEN Template("index.ts", <<"http-stream", port, cors>>)
    ELSE Template("index.ts", <<"stdio", 0, FALSE>>)

\* Lines 113-140: the files to write, in order, as <<path, content>>.
ProjectFiles(project_dir, name, http, cors, port, example) ==
    << <<Child(project_dir, PackageJson), GeneratedManifest>>,
       <<Child(project_dir, TsconfigJson), Template("tsconfig.json", <<>>)>>,
       <<Child(project_dir, ReadmeMd), Template("README.md", name)>>,
       <<Child(Child(project_dir, Src), IndexTs), IndexTsContent(http, cors, port)>> >>
    \o (IF example
        THEN << <<Child(Child(Child(project_dir, Src), Tools), ExampleToolTs),
                  Template("ExampleTool.ts", <<>>)>> >>
        ELSE <<>>)

\* Lines 142-144: write the files one after the other.
RECURSIVE WriteAll(_, _)
WriteAll(files, list) ==
    IF list = <<>> THEN files
    ELSE WriteAll(write_entry(mkdir_parents(files, Parent(Head(list)[1])),
                              Head(list)[1], Head(list)[2]),
                  Tail(list))

\* A mutant of AfterGitInit: the install flag is not looked at.
AfterGitInitAlwaysInstalls(install) == "npm_install"

\* Line 149: what follows the version-control init.
AfterGitInit(install) == IF install THEN "npm_install" ELSE "done"

CreateNames == {None, <<>>, <<"a">>, <<"p">>}
TypedLines == {<<>>, <<" ">>, <<" ", "p">>}

InitCreate ==
    /\ cwd \in Dirs
    /\ fs = LayoutFs({}, <<>>)
    /\ fs0 = fs
    /\ fsTsc = fs
    /\ environ = None
    /\ osName = "posix"
    /\ args \in [name : CreateNames, http : BOOLEAN, cors : BOOLEAN,
                 port : {DefaultPort}, install : BOOLEAN, example : BOOLEAN]
    /\ stdin \in TypedLines
    /\ pc = "name"
    /\ locals = [name |-> args.name, project_dir |-> NoPath]
    /\ log = <<>>
    /\ outcome = "running"

\* Lines 54-57: the project name, asked for when it was not given.
CreateName ==
    /\ pc = "name"
    /\ LET name == IF ~Truthy(args.name) THEN Strip(stdin) ELSE args.name
       IN  /\ locals' = [locals EXCEPT !.name = name]
           /\ log' = IF ~Truthy(args.name)
                     THEN Append(log, Ev("input", "Project name: ", 0, None))
                     ELSE log
           /\ IF ~Truthy(name)
              THEN Fail("MissingInput")
              ELSE pc' = "mkdirs" /\ outcome' = outcome
    /\ UNCHANGED <<cwd, environ, osName, fs, fs0, fsTsc, args, stdin>>

\* Lines 59-69: the project directory and its fixed subtree.
CreateDirs ==
    /\ pc = "mkdirs"
    /\ LET project_dir == Child(cwd, locals.name)
           src_dir == Child(project_dir, Src)
       IN  /\ locals' = [locals EXCEPT !.project_dir = project_dir]
           /\ fs' = mkdir_parents(mkdir_parents(mkdir_parents(fs,
                        Child(src_dir, Tools)), Child(src_dir, Prompts)),
                        Child(src_dir, Resources))
    /\ log' = Append(log, Ev("mkdir", "project tree", 0, None))
    /\ pc' = "write"
    /\ UNCHANGED <<cwd, environ, osName, fs0, fsTsc, args, stdin, outcome>>

\* Lines 71-144: render the files and write them.
CreateFiles ==
    /\ pc = "write"
    /\ LET files == ProjectFiles(locals.project_dir, locals.name, args.http,
                                 args.cors, args.port, args.example)
       IN  /\ fs' = WriteAll(fs, files)
           /\ log' = log \o [i \in DOMAIN files |-> Ev("write", files[i][1], 0, None)]
    /\ pc' = "git_init"
    /\ UNCHANGED <<cwd, environ, osName, fs0, fsTsc, args, stdin, locals, outcome>>

\* Lines 146-149: enter the project directory and initialise version control.
CreateGitInit ==
    /\ pc = "git_init"
    /\ cwd' = locals.project_dir
    /\ \E status \in {0, 1} :
        /\ log' = Append(log, Exec("git init", status, environ))
        /\ fs' = IF status = 0 THEN mkdir_parents(fs, Child(locals.project_dir, DotGit))
                 ELSE fs
        /\ IF CheckCall(status)
           THEN /\ pc' = AfterGitInit(args.install)
                /\ outcome' = IF pc' = "done" THEN "ok" ELSE outcome
           ELSE Fail("ExternalToolFailure")
    /\ UNCHANGED <<environ, osName, fs0, fsTsc, args, stdin, locals>>

\* Line 150: the dependency installer.
CreateInstall ==
    /\ pc = "npm_install"
    /\ \E status \in {0, 1} :
        /\ log' = Append(log, Exec("npm install", status, environ))
        /\ IF CheckCall(status)
           THEN pc' = "tsc" /\ outcome' = outcome
           ELSE Fail("ExternalToolFailure")
    /\ UNCHANGED <<cwd, environ, osName, fs, fs0, fsTsc, args, stdin, locals>>

\* Line 151: the compiler, in the project directory.
CreateTsc ==
    /\ pc = "tsc"
    /\ \E status \in {0, 2}, after \in CompilerEffects(fs, locals.project_dir) :
        /\ fs' = after
        /\ fsTsc' = after
        /\ log' = Append(log, Exec("npx tsc", status, environ))
        /\ IF CheckCall(status)
           THEN pc' = "mcp_build" /\ outcome' = outcome
           ELSE Fail("ExternalToolFailure")
    /\ UNCHANGED <<cwd, environ, osName, fs0, args, stdin, locals>>

\* Lines 152-155: the build command as a child process whose environment
\* has MCP_SKIP_VALIDATION set to "true"; the child may patch the entry point.
CreateMcpBuild ==
    /\ pc = "mcp_build"
    /\ \E status \in {0, 1} :
        /\ log' = Append(log, Exec("npx mcp-build", status, TrueStr))
        /\ fs' \in {fs, PostCompilePatch(fs, locals.project_dir, osName)}
        /\ IF CheckCall(status)
           THEN pc' = "done" /\ outcome' = "ok"
           ELSE Fail("ExternalToolFailure")
    /\ UNCHANGED <<cwd, environ, osName, fs0, fsTsc, args, stdin, locals>>

NextCreate ==
    \/ CreateName \/ CreateDirs \/ CreateFiles
    \/ CreateGitInit \/ CreateInstall \/ CreateTsc \/ CreateMcpBuild

SpecCreate == InitCreate /\ [][NextCreate]_vars

\* The command lines of the processes started so far, in order.
Started == [i \in 1..Cardinality(Logged("exec")) |->
              log[CHOOSE j \in Logged("exec") :
                     Cardinality({k \in Logged("exec") : k <= j}) = i]]
StartedCommands == [i \in DOMAIN Started |-> Started[i].what]

\* C7: every project file is on disk, and every write is logged, before the
\* first process starts; the processes are git init, then, with install
\* only, npm install, npx tsc and npx mcp-build, in that order; the build
\* runs with the override "true"; a process starts only after the one before
\* it exited zero, and a non-zero exit is the last thing started.
C7_CreatePipeline ==
    /\ \A w \in Logged("write"), e \in Logged("exec") : w < e
    /\ Logged("exec") /= {} =>
         LET files == ProjectFiles(locals.project_dir, locals.name, args.http,
                                   args.cors, args.port, args.example)
         IN  \A i \in DOMAIN files :
               /\ Exists(fs, files[i][1])
               /\ \E w \in Logged("write") : log[w].what = files[i][1]
    /\ IsPrefixOf(StartedCommands,
                  IF args.install
                  THEN <<"git init", "npm install", "npx tsc", "npx mcp-build">>
                  ELSE <<"git init">>)
    /\ \A i \in DOMAIN Started :
         /\ i > 1 => Started[i - 1].status = 0
         /\ Started[i].what = "npx mcp-build" => Started[i].env = TrueStr
         /\ Started[i].status /= 0 =>
              /\ i = Len(Started)
              /\ pc = "failed"
              /\ outcome = "ExternalToolFailure"
    /\ pc = "done" =>
         Len(Started) = (IF args.install THEN 4 ELSE 1)

\* C7 witness: a run with install that ended after all four processes
\* exited zero.
C7_Witness ==
    /\ pc = "done"
    /\ args.install
    /\ Len(Started) = 4
    /\ \A i \in DOMAIN Started : Started[i].status = 0

\* End-to-end (section 8): without install no installer and no compiler starts.
CreateWithoutInstall ==
    (pc = "done" /\ ~args.install) => StartedCommands = <<"git init">>

---------------------------------------------------------------------------
(* add_component *)

Tool == <<"t","o","o","l">>
Prompt == <<"p","r","o","m","p","t">>
Resource == <<"r","e","s","o","u","r","c","e">>
Widget == <<"w","i","d","g","e","t">>
DotTs == <<".","t","s">>

\* Lines 175-179 and 185: dir_map[kind] for current directory dir; NoPath
\* stands for the KeyError of a kind that is not a key.
dir_map(dir, kind) ==
    IF kind = Tool THEN dir \o <<Src, Tools>>
    ELSE IF kind = Prompt THEN dir \o <<Src, Prompts>>
    ELSE IF kind = Resource THEN dir \o <<Src, Resources>>
    ELSE NoPath

\* Line 174
FileName(class_name, kind) == class_name \o Capitalize(kind) \o DotTs

\* A mutant of WriteComponent: the source directory is made before the
\* kind is looked up.
WriteComponentMakesSrcFirst(files, dir, kind, file_name, content) ==
    LET target_dir == dir_map(dir, kind)
        made == mkdir_parents(files, Child(dir, Src))
    IN  IF target_dir = NoPath THEN made
        ELSE write_entry(mkdir_parents(made, target_dir),
                         Child(target_dir, file_name), content)

\* Lines 185-188: the filesystem after the lookup, the mkdir and the write;
\* a KeyError at the lookup leaves it as it was.
WriteComponent(files, dir, kind, file_name, content) ==
    LET target_dir == dir_map(dir, kind)
    IN  IF target_dir = NoPath THEN files
        ELSE write_entry(mkdir_parents(files, target_dir),
                         Child(target_dir, file_name), content)

AddNames == {None, <<>>, <<"a", "B">>, <<"m", "y", "-", "t">>}
AddKinds == {Tool, Prompt, Resource, Widget}

\* Layouts with at most one project manifest.
AddLayouts ==
    {LayoutFs({}, <<>>)}
    \cup {LayoutFs({d}, [e \in {d} |-> GeneratedManifest]) : d \in Dirs}

InitAdd ==
    /\ cwd \in Dirs
    /\ fs \in AddLayouts
    /\ fs0 = fs
    /\ fsTsc = fs
    /\ environ = None
    /\ osName = "posix"
    /\ args \in [name : AddNames, kind : AddKinds]
    /\ stdin \in TypedLines
    /\ pc = "find_project"
    /\ locals = [pkg |-> NoPath, name |-> args.name, class_name |-> <<>>,
                 file_name |-> <<>>, file_path |-> NoPath]
    /\ log = <<>>
    /\ outcome = "running"

\* Lines 165-167: the command must run inside a project.
AddFindProject ==
    /\ pc = "find_project"
    /\ LET pkg == find_package_json(fs, cwd)
       IN  /\ locals' = [locals EXCEPT !.pkg = pkg]
           /\ IF pkg = NoPath
              THEN Fail("NotFound")
              ELSE pc' = "name" /\ outcome' = outcome
    /\ log' = Append(log, Step("find_project"))
    /\ UNCHANGED <<cwd, environ, osName, fs, fs0, fsTsc, args, stdin>>

\* Lines 168-171: the component name, asked for when it was not given.
AddName ==
    /\ pc = "name"
    /\ LET name == IF ~Truthy(args.name) THEN Strip(stdin) ELSE args.name
       IN  /\ locals' = [locals EXCEPT !.name = name]
           /\ log' = IF ~Truthy(args.name)
                     THEN Append(log, Ev("input", Capitalize(args.kind), 0, None))
                     ELSE log
           /\ IF ~Truthy(name)
              THEN Fail("MissingInput")
              ELSE pc' = "write" /\ outcome' = outcome
    /\ UNCHANGED <<cwd, environ, osName, fs, fs0, fsTsc, args, stdin>>

\* Lines 173-189: derive the names, make the directory and write the stub.
AddWrite ==
    /\ pc = "write"
    /\ LET class_name == to_pascal_case(locals.name)
           file_name == FileName(class_name, args.kind)
           target_dir == dir_map(cwd, args.kind)
           content == Template(args.kind, <<class_name, locals.name>>)
       IN  /\ fs' = WriteComponent(fs, cwd, args.kind, file_name, content)
           /\ IF target_dir = NoPath
              THEN /\ Fail("KeyError")
                   /\ log' = log
                   /\ locals' = [locals EXCEPT !.class_name = class_name,
                                               !.file_name = file_name]
              ELSE /\ pc' = "done"
                   /\ outcome' = "ok"
                   /\ log' = Append(log, Ev("write", Child(target_dir, file_name), 0, None))
                   /\ locals' = [locals EXCEPT !.class_name = class_name,
                                               !.file_name = file_name,
                                               !.file_path = Child(target_dir, file_name)]
    /\ UNCHANGED <<cwd, environ, osName, fs0, fsTsc, args, stdin>>

NextAdd == AddFindProject \/ AddName \/ AddWrite

SpecAdd == InitAdd /\ [][NextAdd]_vars

\* The per-kind subdirectory of the source root of the project rooted at root.
KindDirectory(root, kind) ==
    root \o <<Src, CASE kind = Tool -> Tools
                     [] kind = Prompt -> Prompts
                     [] kind = Resource -> Resources>>

\* C5 as claimed: after a successful run the written file is named
\* canonicalName + capitalize(kind) + ".ts" and lies in the per-kind
\* subdirectory under the source root of the project whose manifest was found.
C5_ComponentUnderProjectRoot ==
    pc = "done" =>
        /\ locals.file_name = to_pascal_case(locals.name) \o Capitalize(args.kind) \o DotTs
        /\ Parent(locals.file_path) = KindDirectory(Parent(locals.pkg), args.kind)
        /\ Exists(fs, Child(KindDirectory(Parent(locals.pkg), args.kind), locals.file_name))

\* What holds of the code: the file lies under the current directory.
ComponentUnderCwd ==
    pc = "done" =>
        /\ locals.file_name = to_pascal_case(locals.name) \o Capitalize(args.kind) \o DotTs
        /\ locals.file_path = Child(KindDirectory(cwd, args.kind), locals.file_name)
        /\ Exists(fs, locals.file_path)
        /\ DOMAIN fs \ DOMAIN fs0 \subseteq
             {locals.file_path, Parent(locals.file_path), Child(cwd, Src)}

AskedForName == \E i \in Logged("input") : TRUE

\* C10: a run of add_component that failed, as NotFound, MissingInput or at
\* the lookup of an unknown kind, left the filesystem as it was; and the
\* name is asked for only after a manifest was found.
C10_FailedAddChangesNothing ==
    /\ pc = "failed" =>
         /\ fs = fs0
         /\ outcome \in {"NotFound", "MissingInput", "KeyError"}
         /\ outcome = "NotFound" <=> \A d \in Chain(cwd) : ~HoldsManifest(fs0, d)
         /\ outcome = "KeyError" => args.kind \notin {Tool, Prompt, Resource}
         /\ outcome = "MissingInput" => AskedForName
    /\ AskedForName => \E d \in Chain(cwd) : HoldsManifest(fs0, d)
    /\ Logged("write") /= {} => pc = "done"

\* C10 witness: inside a project, with a name given, the kind was not one
\* of the three and the run failed at the lookup.
C10_Witness ==
    /\ pc = "failed"
    /\ outcome = "KeyError"
    /\ args.kind = Widget
    /\ Truthy(locals.name)
    /\ locals.pkg /= NoPath

=============================================================================
